---- MODULE Spec2Model ----
(***************************************************************************)
(* A model of pyhulu's HuluClient (src/pyhulu/client.py): the config       *)
(* handshake that derives the session key, the two playlist requests and   *)
(* the envelope decoding (hex -> CBC decrypt -> unpad -> UTF-8 -> JSON).   *)
(* Text (str) is a sequence of code points, bytes a sequence of 0..255.    *)
(***************************************************************************)
EXTENDS Integers, Sequences, FiniteSets, TLC

VARIABLES
    pc,                     \* "new" | "ready" (__init__ returned) | "failed" (__init__ raised)
    device,                 \* self.device: [device_code, device_key]
    extra_playlist_params,  \* self.extra_playlist_params
    session_key,            \* self.session_key (bytes), <<>> before __init__ sets it
    server_key,             \* self.server_key (str), <<>> before __init__ sets it
    established,            \* the (session_key, server_key) pair __init__ stored
    handshakes,             \* how many times get_session_key has run
    last,                   \* what the last operation did (steps, log lines, outcome)
    hdr_seen,               \* some load_playlist_six call so far had hdr set
    script                  \* the command-line script using the client (src/hulu.py)

vars == <<pc, device, extra_playlist_params, session_key, server_key,
          established, handshakes, last, hdr_seen, script>>

-----------------------------------------------------------------------------
(* Characters and bytes.                                                   *)

\* The printable ASCII characters the model's literals use, by code range.
DigitChars == <<"0", "1", "2", "3", "4", "5", "6", "7", "8", "9">>
UpperChars == <<"A", "B", "C", "D", "E", "F", "G", "H", "I", "J", "K", "L", "M", "N", "O", "P", "Q", "R", "S", "T", "U", "V", "W", "X", "Y", "Z">>
LowerChars == <<"a", "b", "c", "d", "e", "f", "g", "h", "i", "j", "k", "l", "m", "n", "o", "p", "q", "r", "s", "t", "u", "v", "w", "x", "y", "z">>
PunctChars == <<" ", "\"", "+", ",", "-", ".", "/", ":", "=", "[", "]", "_", "{", "}">>
PunctCodes == <<32, 34, 43, 44, 45, 46, 47, 58, 61, 91, 93, 95, 123, 125>>

IndexOf(seq, c) == CHOOSE i \in 1..Len(seq) : seq[i] = c
Has(seq, c) == \E i \in 1..Len(seq) : seq[i] = c

\* ord(c) of a character.
Ord(c) ==
    IF Has(DigitChars, c) THEN 47 + IndexOf(DigitChars, c)
    ELSE IF Has(UpperChars, c) THEN 64 + IndexOf(UpperChars, c)
    ELSE IF Has(LowerChars, c) THEN 96 + IndexOf(LowerChars, c)
    ELSE PunctCodes[IndexOf(PunctChars, c)]

\* A str literal: the code points of a tuple of characters.
Str(cs) == [i \in 1..Len(cs) |-> Ord(cs[i])]

\* n copies of the sequence s.
Rep(s, n) == [i \in 1..(n * Len(s)) |-> s[((i - 1) % Len(s)) + 1]]

\* Bit k of the number x.
Bit(x, k) == (x \div (2 ^ k)) % 2

\* Python's ^ on two bytes: bit by bit, for the 8 bits of a byte.
ByteXor(a, b) ==
    ((Bit(a, 0) + Bit(b, 0)) % 2)
    + (2 * ((Bit(a, 1) + Bit(b, 1)) % 2))
    + (4 * ((Bit(a, 2) + Bit(b, 2)) % 2))
    + (8 * ((Bit(a, 3) + Bit(b, 3)) % 2))
    + (16 * ((Bit(a, 4) + Bit(b, 4)) % 2))
    + (32 * ((Bit(a, 5) + Bit(b, 5)) % 2))
    + (64 * ((Bit(a, 6) + Bit(b, 6)) % 2))
    + (128 * ((Bit(a, 7) + Bit(b, 7)) % 2))

\* zip(a, b): stops at the shorter argument.
Zip(a, b) ==
    LET n == IF Len(a) < Len(b) THEN Len(a) ELSE Len(b)
    IN  [i \in 1..n |-> <<a[i], b[i]>>]

-----------------------------------------------------------------------------
(* bytes.fromhex / binascii.hexlify / base64.b64encode.                    *)

\* The value of a hex digit's code point, 16 for any other code point.
HexDigitValue(c) ==
    IF c >= 48 /\ c <= 57 THEN c - 48
    ELSE IF c >= 97 /\ c <= 102 THEN c - 87
    ELSE IF c >= 65 /\ c <= 70 THEN c - 55
    ELSE 16

\* Py_ISSPACE: space, \t, \n, \v, \f, \r.
IsSpace(c) == c = 32 \/ (c >= 9 /\ c <= 13)

\* The indices 1..n in order.
Indices(n) == [i \in 1..n |-> i]

\* bytes.fromhex(text): ASCII whitespace is skipped before a byte, then two
\* hex digits must follow each other; anything else raises ValueError. So
\* the text decodes exactly when its non-space characters are hex digits that
\* pair up two by two, each pair adjacent in the text.
FromHex(text) ==
    LET IsDigitAt(i) == ~IsSpace(text[i])
        at  == SelectSeq(Indices(Len(text)), IsDigitAt)
        bad == [ok |-> FALSE, val |-> <<>>]
    IN  IF \E k \in 1..Len(at) : HexDigitValue(text[at[k]]) >= 16 THEN bad
        ELSE IF Len(at) % 2 # 0 THEN bad
        ELSE IF \E k \in 1..(Len(at) \div 2) : at[2 * k] # at[(2 * k) - 1] + 1 THEN bad
        ELSE [ok |-> TRUE,
              val |-> [k \in 1..(Len(at) \div 2) |->
                          (16 * HexDigitValue(text[at[(2 * k) - 1]]))
                          + HexDigitValue(text[at[2 * k]])]]

HexDigits == Str(<<"0", "1", "2", "3", "4", "5", "6", "7", "8", "9", "a", "b", "c", "d", "e", "f">>)

\* binascii.hexlify(data).decode('utf8'): two lowercase digits per byte.
Hexlify(data) ==
    [i \in 1..(2 * Len(data)) |->
        LET b == data[(i + 1) \div 2]
        IN  IF i % 2 = 1 THEN HexDigits[(b \div 16) + 1] ELSE HexDigits[(b % 16) + 1]]

Base64Alphabet == Str(<<"A", "B", "C", "D", "E", "F", "G", "H", "I", "J", "K", "L", "M", "N", "O", "P", "Q", "R", "S", "T", "U", "V", "W", "X", "Y", "Z", "a", "b", "c", "d", "e", "f", "g", "h", "i", "j", "k", "l", "m", "n", "o", "p", "q", "r", "s", "t", "u", "v", "w", "x", "y", "z", "0", "1", "2", "3", "4", "5", "6", "7", "8", "9", "+", "/">>)

\* The four characters of the g-th group of three bytes, '=' where the data
\* has ended.
B64Group(data, g) ==
    LET i  == (3 * (g - 1)) + 1
        n  == Len(data) - (i - 1)
        b1 == data[i]
        b2 == IF n >= 2 THEN data[i + 1] ELSE 0
        b3 == IF n >= 3 THEN data[i + 2] ELSE 0
        v  == (b1 * 65536) + (b2 * 256) + b3
    IN  <<Base64Alphabet[(v \div 262144) + 1],
          Base64Alphabet[((v \div 4096) % 64) + 1],
          IF n >= 2 THEN Base64Alphabet[((v \div 64) % 64) + 1] ELSE 61,
          IF n >= 3 THEN Base64Alphabet[(v % 64) + 1] ELSE 61>>

\* base64.b64encode(data).decode('utf8'): 3 bytes become 4 characters, the
\* last group is padded with '='.
B64Encode(data) ==
    LET groups == [g \in 1..((Len(data) + 2) \div 3) |-> B64Group(data, g)]
    IN  [i \in 1..(4 * Len(groups)) |-> groups[((i - 1) \div 4) + 1][((i - 1) % 4) + 1]]

-----------------------------------------------------------------------------
(* Cryptodome: AES in CBC mode and PKCS#7 padding.                         *)

\* AES's block size, the 16 of Padding.unpad(..., 16) and of the iv.
BlockSize == 16

\* The key lengths AES.new accepts.
AESKeySizes == {16, 24, 32}

\* The block primitive. AES itself is library code outside the repository;
\* a byte-wise keyed bijection stands in for it (every claim checked here is
\* about the envelope's handling, none about cipher strength).
BlockDecrypt(key, block) ==
    [j \in 1..BlockSize |-> ByteXor(block[j], key[((j - 1) % Len(key)) + 1])]

BlockEncrypt(key, block) ==
    [j \in 1..BlockSize |-> ByteXor(block[j], key[((j - 1) % Len(key)) + 1])]

XorBlock(a, b) == [j \in 1..BlockSize |-> ByteXor(a[j], b[j])]

\* iv = b'\0' * 16
ZeroIV == [j \in 1..BlockSize |-> 0]

NthBlock(data, n) == SubSeq(data, ((n - 1) * BlockSize) + 1, n * BlockSize)

\* The blocks of a sequence, concatenated.
Flatten(blocks) ==
    [i \in 1..(BlockSize * Len(blocks)) |->
        blocks[((i - 1) \div BlockSize) + 1][((i - 1) % BlockSize) + 1]]

\* aes_cbc_ctx.decrypt(ciphertext) of n whole blocks:
\* P[b] = D(C[b]) xor C[b-1], C[0] = iv.
CBCDecryptBlocks(key, data, n) ==
    Flatten([b \in 1..n |->
                XorBlock(BlockDecrypt(key, NthBlock(data, b)),
                         IF b = 1 THEN ZeroIV ELSE NthBlock(data, b - 1))])

\* aes_cbc_ctx.decrypt: ValueError unless the data is a whole number of blocks.
CBCDecrypt(key, data) ==
    IF Len(data) % BlockSize # 0 THEN [ok |-> FALSE, val |-> <<>>]
    ELSE [ok |-> TRUE, val |-> CBCDecryptBlocks(key, data, Len(data) \div BlockSize)]

\* Padding.unpad(padded, 16), style pkcs7: ValueError for empty input, for a
\* length that is no multiple of the block size and for incorrect padding.
Unpad(padded) ==
    LET n   == Len(padded)
        bad == [ok |-> FALSE, val |-> <<>>]
    IN  IF n = 0 THEN bad
        ELSE IF n % BlockSize # 0 THEN bad
        ELSE LET padding_len == padded[n]
             IN  IF padding_len < 1 \/ padding_len > BlockSize THEN bad
                 ELSE IF \E j \in (n - padding_len + 1)..n : padded[j] # padding_len THEN bad
                 ELSE [ok |-> TRUE, val |-> SubSeq(padded, 1, n - padding_len)]

-----------------------------------------------------------------------------
(* bytes.decode('utf8') and json.loads.                                    *)

IsCont(b) == b >= 128 /\ b <= 191

\* How many bytes the character led by byte b takes, 0 when b leads none.
Utf8Width(b) ==
    IF b < 128 THEN 1
    ELSE IF b >= 194 /\ b <= 223 THEN 2
    ELSE IF b >= 224 /\ b <= 239 THEN 3
    ELSE IF b >= 240 /\ b <= 244 THEN 4
    ELSE 0

\* Whether a well-formed character starts at data[i].
Utf8CharAt(data, i) ==
    LET b == data[i]
        w == Utf8Width(b)
    IN  /\ w > 0
        /\ i + w - 1 <= Len(data)
        /\ \A k \in 1..(w - 1) : IsCont(data[i + k])
        /\ (b = 224 => data[i + 1] >= 160)
        /\ (b = 237 => data[i + 1] <= 159)
        /\ (b = 240 => data[i + 1] >= 144)
        /\ (b = 244 => data[i + 1] <= 143)
        /\ (i + w <= Len(data) => ~IsCont(data[i + w]))

\* The code point of the character starting at data[i].
Utf8CodePoint(data, i) ==
    LET b == data[i]
        w == Utf8Width(b)
        c(k) == data[i + k] - 128
    IN  IF w = 1 THEN b
        ELSE IF w = 2 THEN ((b - 192) * 64) + c(1)
        ELSE IF w = 3 THEN ((b - 224) * 4096) + (c(1) * 64) + c(2)
        ELSE ((b - 240) * 262144) + (c(1) * 4096) + (c(2) * 64) + c(3)

\* plaintext.decode('utf8'): the code points, or UnicodeDecodeError. The
\* bytes decode exactly when the first is no continuation byte and every
\* other non-continuation byte starts a well-formed character that the next
\* character follows at once.
Utf8Decode(data) ==
    LET IsLead(i) == ~IsCont(data[i])
        leads == SelectSeq(Indices(Len(data)), IsLead)
    IN  IF (Len(data) > 0 /\ IsCont(data[1]))
           \/ \E k \in 1..Len(leads) : ~Utf8CharAt(data, leads[k])
        THEN [ok |-> FALSE, val |-> <<>>]
        ELSE [ok |-> TRUE, val |-> [k \in 1..Len(leads) |-> Utf8CodePoint(data, leads[k])]]

\* JSON values as json.loads builds them: a str, an int or a dict (the pairs
\* in document order).
JStr(s) == [t |-> "str", s |-> s, m |-> <<>>]
JNum(s) == [t |-> "int", s |-> s, m |-> <<>>]
JObj(m) == [t |-> "dict", s |-> <<>>, m |-> m]

JsonBad == [ok |-> FALSE, val |-> JStr(<<>>), next |-> 0]

IsJsonWs(c) == c = 32 \/ c = 9 \/ c = 10 \/ c = 13

RECURSIVE SkipWs(_, _)
SkipWs(s, i) == IF i <= Len(s) /\ IsJsonWs(s[i]) THEN SkipWs(s, i + 1) ELSE i

\* A string token at s[i] = '"': up to the next quote. Control characters end
\* the parse as in json.loads; escapes (backslash) are outside the subset
\* modelled and no document of the model holds one.
JsonStringAt(s, i) ==
    LET closes == {j \in (i + 1)..Len(s) : s[j] = 34}
    IN  IF closes = {} THEN JsonBad
        ELSE LET j == CHOOSE x \in closes : \A y \in closes : x <= y
             IN  IF \E k \in (i + 1)..(j - 1) : s[k] < 32 \/ s[k] = 92 THEN JsonBad
                 ELSE [ok |-> TRUE, val |-> JStr(SubSeq(s, i + 1, j - 1)), next |-> j + 1]

IsDigit(c) == c >= 48 /\ c <= 57

RECURSIVE DigitsEnd(_, _)
DigitsEnd(s, i) == IF i <= Len(s) /\ IsDigit(s[i]) THEN DigitsEnd(s, i + 1) ELSE i

\* The subset of JSON modelled: strings, non-negative integers and objects.
RECURSIVE JsonValueAt(_, _)
RECURSIVE JsonMembersAt(_, _, _)
JsonValueAt(s, i0) ==
    LET i == SkipWs(s, i0)
    IN  IF i > Len(s) THEN JsonBad
        ELSE IF s[i] = 34 THEN JsonStringAt(s, i)
        ELSE IF IsDigit(s[i]) THEN
            LET e == DigitsEnd(s, i)
            IN  IF s[i] = 48 /\ e > i + 1 THEN JsonBad
                ELSE [ok |-> TRUE, val |-> JNum(SubSeq(s, i, e - 1)), next |-> e]
        ELSE IF s[i] = 123 THEN
            LET k == SkipWs(s, i + 1)
            IN  IF k <= Len(s) /\ s[k] = 125
                THEN [ok |-> TRUE, val |-> JObj(<<>>), next |-> k + 1]
                ELSE JsonMembersAt(s, k, <<>>)
        ELSE JsonBad

JsonMembersAt(s, i0, acc) ==
    LET i == SkipWs(s, i0)
    IN  IF i > Len(s) \/ s[i] # 34 THEN JsonBad
        ELSE LET key == JsonStringAt(s, i)
                 c   == SkipWs(s, key.next)
             IN  IF ~key.ok \/ c > Len(s) \/ s[c] # 58 THEN JsonBad
                 ELSE LET v   == JsonValueAt(s, c + 1)
                          e   == SkipWs(s, v.next)
                          got == Append(acc, [k |-> key.val.s, v |-> v.val])
                      IN  IF ~v.ok \/ e > Len(s) THEN JsonBad
                          ELSE IF s[e] = 125
                          THEN [ok |-> TRUE, val |-> JObj(got), next |-> e + 1]
                          ELSE IF s[e] = 44 THEN JsonMembersAt(s, e + 1, got)
                          ELSE JsonBad

\* json.loads(text): one value, nothing but whitespace after it.
JsonLoads(text) ==
    LET r == JsonValueAt(text, 1)
    IN  IF r.ok /\ SkipWs(text, r.next) > Len(text)
        THEN [ok |-> TRUE, val |-> r.val]
        ELSE [ok |-> FALSE, val |-> JStr(<<>>)]

\* key in d, for a dict d.
HasKey(d, key) == \E i \in 1..Len(d.m) : d.m[i].k = key

\* d[key]: the last pair with that key (json.loads keeps the last duplicate).
GetItem(d, key) ==
    LET i == CHOOSE x \in 1..Len(d.m) :
                 d.m[x].k = key /\ \A y \in 1..Len(d.m) : d.m[y].k = key => y <= x
    IN  d.m[i].v

-----------------------------------------------------------------------------
(* str(int) and int(str), used by the nonce template and deejay_device_id. *)

RECURSIVE Decimal(_)
Decimal(n) ==
    IF n < 10 THEN <<48 + n>>
    ELSE Append(Decimal(n \div 10), 48 + (n % 10))

RECURSIVE ParseDigits(_, _)
ParseDigits(s, n) ==
    IF n = 0 THEN 0 ELSE (10 * ParseDigits(s, n - 1)) + (s[n] - 48)

\* int(s) of a str: ValueError unless it is a run of digits (signs, spaces
\* and underscores, which int() also takes, are not among the model's codes).
ParseInt(s) ==
    IF Len(s) > 0 /\ \A i \in 1..Len(s) : IsDigit(s[i])
    THEN [ok |-> TRUE, val |-> ParseDigits(s, Len(s))]
    ELSE [ok |-> FALSE, val |-> 0]

-----------------------------------------------------------------------------
(* Results of the client's methods: a return value or a raised exception,  *)
(* with the steps executed, the lines logged and the requests sent.        *)

Step(name, key) == [name |-> name, key |-> key]

LogLine(fmt, arg) == [fmt |-> fmt, arg |-> arg]

Returned(val, steps, logged, sent) ==
    [ok |-> TRUE, val |-> val, err |-> "none",
     steps |-> steps, logged |-> logged, sent |-> sent]

Raised(err, noval, steps, logged, sent) ==
    [ok |-> FALSE, val |-> noval, err |-> err,
     steps |-> steps, logged |-> logged, sent |-> sent]

\* The exception of r leaving a caller whose own result would be noval.
Propagate(r, noval) == Raised(r.err, noval, r.steps, r.logged, r.sent)

\* The result r of what ran after prev: prev's steps, lines and requests
\* come first.
After(prev, r) ==
    [r EXCEPT !.steps = prev.steps \o @,
              !.logged = prev.logged \o @,
              !.sent = prev.sent \o @]

\* session.post(...) has sent the request.
Posted(request) == Returned(request, <<Step("session.post", <<>>)>>, <<>>, <<request>>)

\* The exceptions the client raises itself.
HexError == "ValueError: Error decoding response hex"
DecryptError == "ValueError: Error decrypting response"

-----------------------------------------------------------------------------
(* HuluClient.__get_ciphertext and HuluClient.decrypt_response.            *)

SplitPoints(text) == {i \in 1..Len(text) : text[i] = 10 \/ text[i] = 13}

\* text.splitlines(), for the line ends \n and \r.
RECURSIVE SplitLines(_)
SplitLines(text) ==
    IF Len(text) = 0 THEN <<>>
    ELSE IF SplitPoints(text) = {} THEN <<text>>
    ELSE LET i == CHOOSE x \in SplitPoints(text) : \A y \in SplitPoints(text) : x <= y
             j == IF text[i] = 13 /\ i < Len(text) /\ text[i + 1] = 10 THEN i + 1 ELSE i
         IN  <<SubSeq(text, 1, i - 1)>> \o SplitLines(SubSeq(text, j + 1, Len(text)))

\* The lines logger.error receives when the hex decoding fails. The request's
\* json.dumps(request, indent=4) lines are kept as one entry.
HexDiagnostics(text) ==
    <<LogLine("Error decoding response hex", <<>>),
      LogLine("Request:", <<>>),
      LogLine("json.dumps(request, indent=4)", <<>>),
      LogLine("Response:", <<>>)>>
    \o [i \in 1..Len(SplitLines(text)) |-> LogLine("%s", SplitLines(text)[i])]

\* A decoding that passes on what it could read instead of raising.
get_ciphertext_lenient(text, request) ==
    Returned(FromHex(text).val, <<Step("bytes.fromhex", <<>>)>>, <<>>, <<>>)

get_ciphertext(text, request) ==
    LET h == FromHex(text)
    IN  IF h.ok
        THEN Returned(h.val, <<Step("bytes.fromhex", <<>>)>>, <<>>, <<>>)
        ELSE Raised(HexError, <<>>, <<Step("bytes.fromhex", <<>>)>>,
                    HexDiagnostics(text), <<>>)

\* Diagnostics that log the ciphertext and the key as hex.
DecryptDiagnosticsHex(key, ciphertext) ==
    <<LogLine("Error decrypting response", <<>>),
      LogLine("Ciphertext:", <<>>),
      LogLine("%s", Hexlify(ciphertext)),
      LogLine("Tried decrypting with key %s", Hexlify(key))>>

\* The lines logger.error receives when decrypt or unpad raise ValueError.
DecryptDiagnostics(key, ciphertext) ==
    <<LogLine("Error decrypting response", <<>>),
      LogLine("Ciphertext:", <<>>),
      LogLine("%s", B64Encode(ciphertext)),
      LogLine("Tried decrypting with key %s", B64Encode(key))>>

NoJson == [t |-> "none", s |-> <<>>, m |-> <<>>]

DecryptSteps(key) ==
    <<Step("AES.new", key), Step("decrypt", key), Step("unpad", <<>>),
      Step("decode", <<>>), Step("json.loads", <<>>)>>

\* return json.loads(...) of the decoded text.
decrypt_loaded(key, js) ==
    IF ~js.ok THEN Raised("JSONDecodeError", NoJson, DecryptSteps(key), <<>>, <<>>)
    ELSE Returned(js.val, DecryptSteps(key), <<>>, <<>>)

\* A decoding inside the try: its errors are logged and raised as the
\* decryption error.
decrypt_decoded_in_try(key, txt) ==
    IF ~txt.ok
    THEN Raised(DecryptError, NoJson, SubSeq(DecryptSteps(key), 1, 4),
                DecryptDiagnostics(key, <<>>), <<>>)
    ELSE IF ~JsonLoads(txt.val).ok
    THEN Raised(DecryptError, NoJson, DecryptSteps(key),
                DecryptDiagnostics(key, <<>>), <<>>)
    ELSE decrypt_loaded(key, JsonLoads(txt.val))

\* plaintext.decode('utf8') has run.
decrypt_decoded(key, txt) ==
    IF ~txt.ok
    THEN Raised("UnicodeDecodeError", NoJson, SubSeq(DecryptSteps(key), 1, 4), <<>>, <<>>)
    ELSE decrypt_loaded(key, JsonLoads(txt.val))

\* Padding.unpad has run: its ValueError is caught, logged and raised anew.
decrypt_unpadded(key, ciphertext, unp) ==
    IF ~unp.ok
    THEN Raised(DecryptError, NoJson, SubSeq(DecryptSteps(key), 1, 3),
                DecryptDiagnostics(key, ciphertext), <<>>)
    ELSE decrypt_decoded(key, Utf8Decode(unp.val))

\* aes_cbc_ctx.decrypt has run: its ValueError is caught like unpad's.
decrypt_decrypted(key, ciphertext, dec) ==
    IF ~dec.ok
    THEN Raised(DecryptError, NoJson, SubSeq(DecryptSteps(key), 1, 2),
                DecryptDiagnostics(key, ciphertext), <<>>)
    ELSE decrypt_unpadded(key, ciphertext, Unpad(dec.val))

\* decrypt_response(key, ciphertext): AES.new is outside the try, so a key
\* of a wrong length raises without the diagnostics.
decrypt_response(key, ciphertext) ==
    IF Len(key) \notin AESKeySizes
    THEN Raised("ValueError: Incorrect AES key length", NoJson,
                SubSeq(DecryptSteps(key), 1, 1), <<>>, <<>>)
    ELSE decrypt_decrypted(key, ciphertext, CBCDecrypt(key, ciphertext))

-----------------------------------------------------------------------------
(* pyhulu.device.Device, as the specification describes it.                *)

\* The length a device key must have.
DeviceKeyLen == 16

\* Device(device_code, device_key): rejects a key that is not 16 bytes.
Device(device_code, device_key) ==
    IF Len(device_key) = DeviceKeyLen
    THEN [ok |-> TRUE, err |-> "none",
          val |-> [device_code |-> device_code, device_key |-> device_key]]
    ELSE [ok |-> FALSE, err |-> "ValueError: Invalid device key length",
          val |-> [device_code |-> device_code, device_key |-> device_key]]

-----------------------------------------------------------------------------
(* HuluClient.get_session_key.                                             *)

\* hashlib.md5(base).hexdigest(): the digest is kept symbolic, a function of
\* the bytes hashed.
Md5Hex(base) == [md5_of |-> base]

ConfigUrl == "https://play.hulu.com/config"

\* The form fields of the config request.
ConfigPayload(dev, random_value) ==
    LET version == Str(<<"1">>)
        base    == Hexlify(dev.device_key) \o Str(<<",">>) \o dev.device_code
                   \o Str(<<",">>) \o version \o Str(<<",">>) \o Decimal(random_value)
    IN  [rv |-> random_value,
         mozart_version |-> Str(<<"1">>),
         region |-> "US",
         version |-> version,
         device |-> dev.device_code,
         encrypted_nonce |-> Md5Hex(base)]

Post(url, kind, body) == [url |-> url, kind |-> kind, body |-> body]

NoCreds == [session_key |-> <<>>, server_key |-> NoJson]

\* A derivation that takes the server's bytes as the key.
DeriveKeyServerOnly(device_key, server_bytes) ==
    [i \in 1..Len(Zip(device_key, server_bytes)) |-> server_bytes[i]]

\* The derivation loop: device_byte ^ server_byte over zip(device_key, key).
DeriveKey(device_key, server_bytes) ==
    LET z == Zip(device_key, server_bytes)
    IN  [i \in 1..Len(z) |-> ByteXor(z[i][1], z[i][2])]

DeriveSteps ==
    <<Step("config_dict['key']", <<>>), Step("bytes.fromhex", <<>>),
      Step("derive", <<>>), Step("config_dict['key_id']", <<>>)>>

\* The loop and the return, once bytes.fromhex(config_dict['key']) has run.
derive_return(dev, config_dict, key) ==
    IF ~key.ok
    THEN Raised("ValueError: fromhex", NoCreds, SubSeq(DeriveSteps, 1, 2), <<>>, <<>>)
    ELSE IF ~HasKey(config_dict, Str(<<"k", "e", "y", "_", "i", "d">>))
    THEN Raised("KeyError", NoCreds, DeriveSteps, <<>>, <<>>)
    ELSE Returned([session_key |-> DeriveKey(dev.device_key, key.val),
                   server_key  |-> GetItem(config_dict, Str(<<"k", "e", "y", "_", "i", "d">>))],
                  DeriveSteps, <<>>, <<>>)

\* The derivation from the decrypted config: config_dict['key'] needs a dict
\* with that key, bytes.fromhex a str.
derive(dev, config_dict) ==
    IF config_dict.t # "dict"
    THEN Raised("TypeError", NoCreds, SubSeq(DeriveSteps, 1, 1), <<>>, <<>>)
    ELSE IF ~HasKey(config_dict, Str(<<"k", "e", "y">>))
    THEN Raised("KeyError", NoCreds, SubSeq(DeriveSteps, 1, 1), <<>>, <<>>)
    ELSE IF GetItem(config_dict, Str(<<"k", "e", "y">>)).t # "str"
    THEN Raised("TypeError", NoCreds, SubSeq(DeriveSteps, 1, 2), <<>>, <<>>)
    ELSE derive_return(dev, config_dict, FromHex(GetItem(config_dict, Str(<<"k", "e", "y">>)).s))

\* get_session_key once decrypt_response has run on the config envelope.
config_decrypted(dev, cfg) ==
    IF ~cfg.ok THEN Propagate(cfg, NoCreds)
    ELSE After(cfg, derive(dev, cfg.val))

\* get_session_key once __get_ciphertext has run: the envelope is decrypted
\* with the device key.
config_decoded(dev, ct) ==
    IF ~ct.ok THEN Propagate(ct, NoCreds)
    ELSE After(ct, config_decrypted(dev, decrypt_response(dev.device_key, ct.val)))

\* get_session_key once the request is posted: resp.raised says session.post
\* raised instead of returning a response.
config_posted(dev, posted, resp) ==
    IF resp.raised THEN Raised("ConnectionError", NoCreds, posted.steps, <<>>, posted.sent)
    ELSE After(posted, config_decoded(dev, get_ciphertext(resp.text, posted.val.body)))

\* get_session_key with the random value drawn and the transport's answer.
get_session_key(dev, random_value, resp) ==
    config_posted(dev, Posted(Post(ConfigUrl, "data", ConfigPayload(dev, random_value))),
                  resp)

-----------------------------------------------------------------------------
(* HuluClient.load_playlist.                                               *)

\* hashlib.md5().hexdigest().upper(): the digest of no input.
DeviceIdentifier == "D41D8CD98F00B204E9800998ECF8427E"

\* dict.update: the keys of e replace those of d, whole values at a time.
Update(d, e) ==
    [k \in (DOMAIN d) \cup (DOMAIN e) |-> IF k \in DOMAIN e THEN e[k] ELSE d[k]]

PlaylistUrl == "https://play.hulu.com/v4/playlist"

\* The params of the legacy request before extra_playlist_params is applied.
PlaylistDefaults(deejay_device_id, video_id, rv, kv) ==
    [device_identifier |-> DeviceIdentifier,
     deejay_device_id |-> deejay_device_id,
     version |-> 1,
     content_eab_id |-> video_id,
     rv |-> rv,
     kv |-> kv]

\* load_playlist once __get_ciphertext has run: the envelope is decrypted with
\* the key given, and what decrypt_response returns is returned.
playlist_decoded(key, ct) ==
    IF ~ct.ok THEN Propagate(ct, NoJson)
    ELSE After(ct, decrypt_response(key, ct.val))

\* load_playlist once the request is posted: the status is not looked at.
playlist_posted(key, posted, resp) ==
    IF resp.raised THEN Raised("ConnectionError", NoJson, posted.steps, <<>>, posted.sent)
    ELSE After(posted, playlist_decoded(key, get_ciphertext(resp.text, posted.val.body)))

\* The params load_playlist posts, given int(self.device.device_code).
PlaylistParams(deejay_device_id, kv, extra, video_id, rv) ==
    Update(PlaylistDefaults(deejay_device_id, video_id, rv, kv), extra)

\* A load_playlist that decrypts with the device key.
load_playlist_device_key(dev, skey, kv, extra, video_id, rv, resp) ==
    IF ~ParseInt(dev.device_code).ok
    THEN Raised("ValueError: int", NoJson, <<>>, <<>>, <<>>)
    ELSE playlist_posted(dev.device_key,
                         Posted(Post(PlaylistUrl, "json",
                                     PlaylistParams(ParseInt(dev.device_code).val, kv,
                                                    extra, video_id, rv))),
                         resp)

\* load_playlist(video_id) on a client with the given fields, the random
\* value drawn and the transport's answer.
load_playlist(dev, skey, kv, extra, video_id, rv, resp) ==
    IF ~ParseInt(dev.device_code).ok
    THEN Raised("ValueError: int", NoJson, <<>>, <<>>, <<>>)
    ELSE playlist_posted(skey,
                         Posted(Post(PlaylistUrl, "json",
                                     PlaylistParams(ParseInt(dev.device_code).val, kv,
                                                    extra, video_id, rv))),
                         resp)

-----------------------------------------------------------------------------
(* HuluClient.load_playlist_six.                                           *)

PlaylistSixUrl == "https://play.hulu.com/v6/playlist"

\* The fields hevc_params and avc_params have in common: the two literals
\* differ in the video codec entry only.
SixParams(video_values, video_id, device_id, rv, kv) ==
    [device_identifier |-> DeviceIdentifier,
     deejay_device_id |-> device_id,
     version |-> 1,
     all_cdn |-> TRUE,
     content_eab_id |-> video_id,
     region |-> "US",
     xlink_support |-> FALSE,
     device_ad_id |-> "5DFEB7AD-3651-8C6A-8302-56EC694FD9E8",
     limit_ad_tracking |-> FALSE,
     ignore_kids_block |-> FALSE,
     guid |-> "0BFDBD0D05D1DF844899A7D608B95BBE",
     rv |-> rv,
     kv |-> kv,
     cp_session_id |-> "4408CF3E-D697-B2EA-A70A-4769B8D072F1",
     unencrypted |-> TRUE,
     network_mode |-> "wifi",
     interface_version |-> "1.3.0-alpha.1",
     play_intent |-> "resume",
     playback |->
        [version |-> 2,
         video |-> [codecs |-> [selection_mode |-> "ALL", values |-> video_values]],
         audio |-> [codecs |-> [values |-> <<[type |-> "EC3"], [type |-> "AAC"]>>,
                                selection_mode |-> "ALL"]],
         drm |-> [values |-> <<[type |-> "WIDEVINE", version |-> "MODULAR",
                                security_level |-> "L3"],
                               [type |-> "PLAYREADY", version |-> "V2",
                                security_level |-> "SL2000"]>>,
                  selection_mode |-> "ALL"],
         manifest |-> [type |-> "DASH", https |-> TRUE, multiple_cdns |-> TRUE,
                       patch_updates |-> TRUE, hulu_types |-> TRUE, live_dai |-> TRUE,
                       secondary_audio |-> TRUE, live_fragment_delay |-> 3],
         trusted_execution_environment |-> TRUE,
         segments |-> [values |-> <<[type |-> "FMP4",
                                     encryption |-> [mode |-> "CENC", type |-> "CENC"],
                                     https |-> TRUE]>>,
                       selection_mode |-> "ONE"]]]

hevc_params(video_id, device_id, rv, kv) ==
    SixParams(<<[type |-> "H265", profile |-> "MAIN_10", width |-> 3840,
                 height |-> 2160, framerate |-> 60, level |-> "5.1",
                 tier |-> "MAIN"]>>,
              video_id, device_id, rv, kv)

avc_params(video_id, device_id, rv, kv) ==
    SixParams(<<[width |-> 1920, level |-> "4.1", height |-> 1080,
                 profile |-> "HIGH", type |-> "H264"]>>,
              video_id, device_id, rv, kv)

\* The two assignments made when hdr is set.
SetHdr(params) ==
    [params EXCEPT !.playback =
        [@ EXCEPT !.video = ("dynamic_range" :> "DOLBY_VISION") @@ @,
                  !.drm = ("multi_key" :> TRUE) @@ @]]

\* A payload that asks for HDR whatever the flag.
SixRequestParamsAlwaysHdr(kv, video_id, device_id, hdr, hevc, rv_hevc, rv_avc) ==
    SetHdr(IF hevc THEN hevc_params(video_id, device_id, rv_hevc, kv)
           ELSE avc_params(video_id, device_id, rv_avc, kv))

\* The params load_playlist_six posts. rv_hevc and rv_avc are the two random
\* values drawn, one for each literal.
SixRequestParams(kv, video_id, device_id, hdr, hevc, rv_hevc, rv_avc) ==
    LET params == IF hevc THEN hevc_params(video_id, device_id, rv_hevc, kv)
                  ELSE avc_params(video_id, device_id, rv_avc, kv)
    IN  IF hdr THEN SetHdr(params) ELSE params

\* resp.raise_for_status(): HTTPError for a 4xx or 5xx status.
RaisesForStatus(status_code) == status_code >= 400 /\ status_code < 600

\* return json.loads(resp.text)
six_loaded(js) ==
    IF ~js.ok THEN Raised("JSONDecodeError", NoJson, <<Step("json.loads", <<>>)>>, <<>>, <<>>)
    ELSE Returned(js.val, <<Step("json.loads", <<>>)>>, <<>>, <<>>)

\* A load_playlist_six that posts again when the service refuses.
six_posted_retry(posted, resp) ==
    IF resp.raised THEN Raised("ConnectionError", NoJson, posted.steps, <<>>, posted.sent)
    ELSE IF RaisesForStatus(resp.status_code)
    THEN Raised("HTTPError", NoJson,
                posted.steps \o posted.steps \o <<Step("raise_for_status", <<>>)>>,
                <<>>, posted.sent \o posted.sent)
    ELSE After(posted,
               After(Returned(NoJson, <<Step("raise_for_status", <<>>)>>, <<>>, <<>>),
                     six_loaded(JsonLoads(resp.text))))

\* load_playlist_six once the request is posted.
six_posted(posted, resp) ==
    IF resp.raised THEN Raised("ConnectionError", NoJson, posted.steps, <<>>, posted.sent)
    ELSE IF RaisesForStatus(resp.status_code)
    THEN Raised("HTTPError", NoJson,
                Append(posted.steps, Step("raise_for_status", <<>>)), <<>>, posted.sent)
    ELSE After(posted,
               After(Returned(NoJson, <<Step("raise_for_status", <<>>)>>, <<>>, <<>>),
                     six_loaded(JsonLoads(resp.text))))

load_playlist_six(kv, video_id, device_id, hdr, hevc, rv_hevc, rv_avc, resp) ==
    six_posted(Posted(Post(PlaylistSixUrl, "json",
                           SixRequestParams(kv, video_id, device_id, hdr, hevc,
                                            rv_hevc, rv_avc))),
               resp)

-----------------------------------------------------------------------------
(* The service and the transport: what session.post can answer.            *)

\* PKCS#7 padding as the service applies it before encrypting.
Pad(data) ==
    LET n == BlockSize - (Len(data) % BlockSize)
    IN  data \o [j \in 1..n |-> n]

\* CBC encryption with the zero iv: C[n] = E(P[n] xor C[n-1]).
RECURSIVE CBCEncryptBlocks(_, _, _)
CBCEncryptBlocks(key, data, n) ==
    IF n = 0 THEN <<>>
    ELSE LET before == CBCEncryptBlocks(key, data, n - 1)
             prev   == IF n = 1 THEN ZeroIV ELSE NthBlock(before, n - 1)
         IN  before \o BlockEncrypt(key, XorBlock(NthBlock(data, n), prev))

CBCEncrypt(key, data) == CBCEncryptBlocks(key, data, Len(data) \div BlockSize)

\* The compact JSON text of a value.
RECURSIVE JsonDumps(_)
RECURSIVE JsonDumpsMembers(_, _)
JsonDumps(v) ==
    IF v.t = "str" THEN <<34>> \o v.s \o <<34>>
    ELSE IF v.t = "int" THEN v.s
    ELSE <<123>> \o JsonDumpsMembers(v.m, 1) \o <<125>>

JsonDumpsMembers(m, i) ==
    IF i > Len(m) THEN <<>>
    ELSE (IF i > 1 THEN <<44>> ELSE <<>>)
         \o <<34>> \o m[i].k \o <<34, 58>> \o JsonDumps(m[i].v)
         \o JsonDumpsMembers(m, i + 1)

\* The hex envelope of a plaintext encrypted under key.
Envelope(key, plaintext) == Hexlify(CBCEncrypt(key, Pad(plaintext)))

Response(status_code, text) ==
    [raised |-> FALSE, status_code |-> status_code, text |-> text]

\* session.post raised (no connection) instead of returning a response.
TransportError == [raised |-> TRUE, status_code |-> 0, text |-> <<>>]

NoResponse == [raised |-> FALSE, status_code |-> 0, text |-> <<>>]

Member(k, v) == [k |-> k, v |-> v]

\* The config document {"key": <hex>, "key_id": <id>}.
ConfigDoc(key_hex, key_id) ==
    JObj(<<Member(Str(<<"k", "e", "y">>), JStr(key_hex)), Member(Str(<<"k", "e", "y", "_", "i", "d">>), JStr(key_id))>>)

\* A config document whose key_id is an object, {"a": "1"}: json.loads
\* returns whatever JSON value the service put there.
KeyIdObject == JObj(<<Member(Str(<<"a">>), JStr(Str(<<"1">>)))>>)

ConfigDocObjectId ==
    JObj(<<Member(Str(<<"k", "e", "y">>), JStr(Rep(Str(<<"f", "f">>), 16))),
           Member(Str(<<"k", "e", "y", "_", "i", "d">>), KeyIdObject)>>)

\* Key material the service may send: 16 bytes of ff, 16 mixed bytes in both
\* letter cases, 8 bytes, 17 bytes, and text that is no hex.
KeyHexFF    == Rep(Str(<<"f", "f">>), 16)
KeyHexMixed == Str(<<"0", "1", "2", "3", "4", "5", "6", "7", "8", "9", "a", "b", "c", "d", "e", "f", "F", "E", "D", "C", "B", "A", "9", "8", "7", "6", "5", "4", "3", "2", "1", "0">>)
KeyHexShort == Rep(Str(<<"f", "f">>), 8)
KeyHexLong  == Rep(Str(<<"a", "5">>), 17)
KeyHexBad   == Str(<<"z", "z">>)

PlaylistDoc == JObj(<<Member(Str(<<"s", "t", "r", "e", "a", "m", "_", "u", "r", "l">>), JStr(Str(<<"u">>)))>>)
BlockDoc    == JObj(<<Member(Str(<<"b", "l", "o", "c", "k">>), JStr(Str(<<"g", "e", "o">>)))>>)

\* Texts that are no hex: a non-hex character, an odd number of digits, a
\* space inside a byte.
BadHexTexts == {Str(<<"z", "z">>), Str(<<"a", "b", "c">>), Str(<<"f", " ", "f">>)}

\* A 16-byte key that is neither the device key nor a session key of the model.
OtherKey == [j \in 1..16 |-> 16 + j]

\* What the config endpoint may answer to a device with key dk.
HandshakeResponses(dk) ==
    {Response(200, Envelope(dk, JsonDumps(ConfigDoc(k, Str(<<"7">>))))) :
        k \in {KeyHexFF, KeyHexMixed, KeyHexShort, KeyHexLong, KeyHexBad}}
    \cup {Response(200, Envelope(dk, JsonDumps(d))) :
        d \in {JObj(<<Member(Str(<<"k", "e", "y">>), JStr(KeyHexFF))>>),
               JObj(<<Member(Str(<<"k", "e", "y">>), JNum(Str(<<"1">>)))>>),
               JObj(<<>>),
               JStr(Str(<<"n", "o">>))}}
    \cup {Response(200, Envelope(dk, JsonDumps(ConfigDocObjectId))),
          Response(200, Envelope(OtherKey, JsonDumps(ConfigDoc(KeyHexFF, Str(<<"7">>))))),
          Response(200, Envelope(dk, Str(<<"o", "o", "p", "s">>))),
          Response(200, Envelope(dk, <<255>>)),
          Response(200, Str(<<"f", "f">>)),
          Response(200, <<>>),
          Response(500, Str(<<"d", "o", "w", "n">>)),
          TransportError}
    \cup {Response(200, t) : t \in BadHexTexts}

\* The key the service encrypts playlists with: the session key when it is
\* one AES can use.
ServiceKey(skey, dk) == IF Len(skey) \in AESKeySizes THEN skey ELSE dk

\* What the legacy playlist endpoint may answer (one envelope ends with the
\* line end \r\n, which bytes.fromhex skips).
PlaylistResponses(skey, dk) ==
    {Response(200, Envelope(ServiceKey(skey, dk), JsonDumps(PlaylistDoc))),
     Response(200, Envelope(ServiceKey(skey, dk), JsonDumps(BlockDoc))),
     Response(403, Envelope(ServiceKey(skey, dk), JsonDumps(BlockDoc))),
     Response(403, Str(<<"d", "e", "n", "i", "e", "d">>)),
     Response(200, Envelope(ServiceKey(skey, dk), JsonDumps(PlaylistDoc)) \o <<13, 10>>),
     Response(200, Envelope(OtherKey, JsonDumps(PlaylistDoc))),
     Response(200, Envelope(ServiceKey(skey, dk), Str(<<"o", "o", "p", "s">>))),
     Response(200, Envelope(ServiceKey(skey, dk), <<255>>)),
     Response(200, Str(<<"f", "f">>)),
     Response(200, <<>>),
     TransportError}
    \cup {Response(200, t) : t \in BadHexTexts}

\* What the v6 playlist endpoint may answer.
PlaylistSixResponses ==
    {Response(200, JsonDumps(PlaylistDoc)),
     Response(200, JsonDumps(BlockDoc)),
     Response(403, JsonDumps(BlockDoc)),
     Response(200, Str(<<"o", "o", "p", "s">>)),
     TransportError}

\* random.randrange(1E5, 1E6): the ends of the range.
RandomValues == {100000, 999999}

-----------------------------------------------------------------------------
(* The command-line script's use of the client (src/hulu.py).              *)

\* An audio_codecs that appends EC3 whatever the flag.
audio_codecs_always_ec3(force_2ch) == <<[type |-> "AAC"], [type |-> "EC3"]>>

\* audio_codecs: AAC, and EC3 unless --force-2ch is given.
audio_codecs(force_2ch) ==
    IF force_2ch THEN <<[type |-> "AAC"]>>
    ELSE <<[type |-> "AAC"], [type |-> "EC3"]>>

\* The extra_playlist_params the script gives its client.
ScriptExtraParams(force_2ch) ==
    [playback |-> [audio |-> [codecs |-> [values |-> audio_codecs(force_2ch)]]]]

\* Other extra_playlist_params a caller may give: fields the defaults have
\* (kv as an object, version), a field they lack (region); kv as a string.
OverrideExtra ==
    [kv |-> JObj(<<Member(Str(<<"b">>), JStr(Str(<<"2">>)))>>),
     version |-> 2,
     region |-> "US"]

KvStringExtra == [kv |-> JStr(Str(<<"9">>))]

\* Device keys: 16 zero bytes, 16 mixed bytes, and a key of 15 bytes.
DeviceKeys ==
    {[j \in 1..16 |-> 0],
     [j \in 1..16 |-> (j * 37) % 256],
     [j \in 1..15 |-> 1]}

DeviceCode == Str(<<"8", "3", "0">>)

VideoIds == {"EAB::1"}

\* The device id the script passes to load_playlist_six.
ScriptDeviceId == 210

-----------------------------------------------------------------------------
(* The state machine: one client, from __init__ to the calls made on it.   *)

NoArgs == [video_id |-> "", device_id |-> 0, hdr |-> FALSE, hevc |-> FALSE,
           key |-> <<>>, ciphertext |-> <<>>]

\* What an operation did: its arguments, the transport's answer and the
\* method's result.
OpRecord(op, args, resp, r) ==
    [op |-> op, args |-> args, resp |-> resp, ok |-> r.ok, err |-> r.err,
     val |-> r.val, steps |-> r.steps, logged |-> r.logged, sent |-> r.sent]

\* The command-line arguments the script reads.
Args(url, season, force_2ch, hdr, h264) ==
    [url |-> url, season |-> season, force_2ch |-> force_2ch, hdr |-> hdr,
     h264 |-> h264]

\* The script's position and what it holds: the arguments, watch_id, titles
\* (the ids, in order), t (the title being processed), data (the playlists of
\* that title), the error it logged last, the exception that ended it, its
\* exit status (-1 while it runs) and the external processes it started, each
\* with the title it was started for.
ScriptState(pos, args) ==
    [pc |-> pos, args |-> args, watch_id |-> <<>>, titles |-> <<>>, t |-> 0,
     data |-> [video |-> NoJson, chrome |-> NoJson],
     error |-> "", exception |-> "none", exit_status |-> -1, started |-> {}]

\* No script runs: the client is used directly.
NoScript == ScriptState("none", Args(<<>>, FALSE, FALSE, FALSE, FALSE))

Init ==
    /\ pc = "new"
    /\ device \in {[device_code |-> DeviceCode, device_key |-> k] : k \in DeviceKeys}
    /\ extra_playlist_params \in {ScriptExtraParams(f) : f \in BOOLEAN}
    /\ session_key = <<>>
    /\ server_key = NoJson
    /\ established = NoCreds
    /\ handshakes = 0
    /\ last = OpRecord("none", NoArgs, NoResponse, Returned(NoJson, <<>>, <<>>, <<>>))
    /\ hdr_seen = FALSE
    /\ script = NoScript

\* A constructor that hands out a client whatever the handshake did.
init_pc_always_ready(hs) == "ready"

\* Whether the caller holds a client after __init__: an exception raised by
\* get_session_key leaves __init__, and no object is returned.
init_pc(hs) == IF hs.ok THEN "ready" ELSE "failed"

\* What an operation leaves to observe: its record.
Observe(op, args, resp, r) == last' = OpRecord(op, args, resp, r)

\* HuluClient.__init__ when Device() raises: no request is made.
ConstructBadDevice ==
    /\ pc = "new"
    /\ ~Device(device.device_code, device.device_key).ok
    /\ pc' = "failed"
    /\ Observe("__init__", NoArgs, NoResponse,
               Raised(Device(device.device_code, device.device_key).err,
                      NoCreds, <<>>, <<>>, <<>>))
    /\ UNCHANGED <<device, extra_playlist_params, session_key, server_key,
                   established, handshakes, hdr_seen>>

\* self.session_key, self.server_key = self.get_session_key()
StoreSessionKey(hs) ==
    /\ pc' = init_pc(hs)
    /\ session_key' = IF hs.ok THEN hs.val.session_key ELSE session_key
    /\ server_key' = IF hs.ok THEN hs.val.server_key ELSE server_key
    /\ established' = IF hs.ok THEN hs.val ELSE established
    /\ handshakes' = handshakes + 1

\* __init__ from the call of get_session_key on.
InitHandshake(resp, hs) ==
    /\ StoreSessionKey(hs)
    /\ Observe("__init__", NoArgs, resp, hs)

\* HuluClient.__init__: builds the device and stores what get_session_key
\* returns.
Construct(random_value, resp) ==
    /\ pc = "new"
    /\ Device(device.device_code, device.device_key).ok
    /\ InitHandshake(resp, get_session_key(device, random_value, resp))
    /\ UNCHANGED <<device, extra_playlist_params, hdr_seen>>

\* A load_playlist call that replaces the session key by the device key.
LoadPlaylistRekey(video_id, rv, resp) ==
    /\ pc = "ready"
    /\ Observe("load_playlist", [NoArgs EXCEPT !.video_id = video_id], resp,
               load_playlist(device, session_key, server_key,
                             extra_playlist_params, video_id, rv, resp))
    /\ session_key' = device.device_key
    /\ UNCHANGED <<pc, device, extra_playlist_params, server_key,
                   established, handshakes, hdr_seen>>

\* A call of load_playlist on the constructed client.
LoadPlaylist(video_id, rv, resp) ==
    /\ pc = "ready"
    /\ Observe("load_playlist", [NoArgs EXCEPT !.video_id = video_id], resp,
               load_playlist(device, session_key, server_key,
                             extra_playlist_params, video_id, rv, resp))
    /\ UNCHANGED <<pc, device, extra_playlist_params, session_key, server_key,
                   established, handshakes, hdr_seen>>

\* A load_playlist_six whose two literals are shared by the calls, so that
\* the hdr assignments of one call stay for the later ones.
LoadPlaylistSixShared(video_id, device_id, hdr, hevc, rv_hevc, rv_avc, resp) ==
    /\ pc = "ready"
    /\ Observe("load_playlist_six",
               [NoArgs EXCEPT !.video_id = video_id, !.device_id = device_id,
                              !.hdr = hdr, !.hevc = hevc],
               resp,
               load_playlist_six(server_key, video_id, device_id,
                                 hdr \/ hdr_seen, hevc, rv_hevc, rv_avc, resp))
    /\ hdr_seen' = (hdr_seen \/ hdr)
    /\ UNCHANGED <<pc, device, extra_playlist_params, session_key, server_key,
                   established, handshakes>>

\* A call of load_playlist_six on the constructed client.
LoadPlaylistSix(video_id, device_id, hdr, hevc, rv_hevc, rv_avc, resp) ==
    /\ pc = "ready"
    /\ Observe("load_playlist_six",
               [NoArgs EXCEPT !.video_id = video_id, !.device_id = device_id,
                              !.hdr = hdr, !.hevc = hevc],
               resp,
               load_playlist_six(server_key, video_id, device_id, hdr, hevc,
                                 rv_hevc, rv_avc, resp))
    /\ hdr_seen' = (hdr_seen \/ hdr)
    /\ UNCHANGED <<pc, device, extra_playlist_params, session_key, server_key,
                   established, handshakes>>

\* A call of decrypt_response by the client's user.
DecryptResponse(key, ciphertext) ==
    /\ pc = "ready"
    /\ Observe("decrypt_response",
               [NoArgs EXCEPT !.key = key, !.ciphertext = ciphertext],
               NoResponse, decrypt_response(key, ciphertext))
    /\ UNCHANGED <<pc, device, extra_playlist_params, session_key, server_key,
                   established, handshakes, hdr_seen>>

\* The keys and ciphertexts a user may hand to decrypt_response.
UserKeys == {session_key, device.device_key, OtherKey}

UserCiphertexts ==
    {CBCEncrypt(ServiceKey(session_key, device.device_key), Pad(JsonDumps(PlaylistDoc))),
     CBCEncrypt(ServiceKey(session_key, device.device_key), Pad(<<255>>)),
     <<>>,
     <<1, 2, 3>>}

\* A client given other extra_playlist_params than the script's.
InitExtra ==
    /\ pc = "new"
    /\ device \in {[device_code |-> DeviceCode, device_key |-> k] :
                      k \in {[j \in 1..16 |-> 0], [j \in 1..15 |-> 1]}}
    /\ extra_playlist_params \in {OverrideExtra, KvStringExtra, ScriptExtraParams(TRUE)}
    /\ session_key = <<>>
    /\ server_key = NoJson
    /\ established = NoCreds
    /\ handshakes = 0
    /\ last = OpRecord("none", NoArgs, NoResponse, Returned(NoJson, <<>>, <<>>, <<>>))
    /\ hdr_seen = FALSE
    /\ script = NoScript

\* The responses are drawn only where the call can be made.
Next ==
    \/ ConstructBadDevice /\ UNCHANGED script
    \/ /\ pc = "new"
       /\ \E rv \in RandomValues, resp \in HandshakeResponses(device.device_key) :
              Construct(rv, resp) /\ UNCHANGED script
    \/ /\ pc = "ready"
       /\ \E v \in VideoIds, rv \in RandomValues,
             resp \in PlaylistResponses(session_key, device.device_key) :
              LoadPlaylist(v, rv, resp) /\ UNCHANGED script
    \/ /\ pc = "ready"
       /\ \E v \in VideoIds, hdr \in BOOLEAN, hevc \in BOOLEAN,
             rv1 \in RandomValues, rv2 \in RandomValues, resp \in PlaylistSixResponses :
              LoadPlaylistSix(v, ScriptDeviceId, hdr, hevc, rv1, rv2, resp)
              /\ UNCHANGED script
    \/ /\ pc = "ready"
       /\ \E key \in UserKeys, ciphertext \in UserCiphertexts :
              DecryptResponse(key, ciphertext) /\ UNCHANGED script

Spec == Init /\ [][Next]_vars

SpecExtra == InitExtra /\ [][Next]_vars

-----------------------------------------------------------------------------
(* The command-line script (src/hulu.py): it creates one client, resolves  *)
(* the watch id, looks the titles up and, for each title, requests the v6  *)
(* and the legacy playlist before it downloads, decrypts and muxes.        *)

client_vars == <<pc, device, extra_playlist_params, session_key, server_key,
                 established, handshakes, last, hdr_seen>>

\* The exceptions of the model that `except ValueError` catches
\* (UnicodeDecodeError and json.JSONDecodeError are subclasses of ValueError).
ValueErrors ==
    {HexError, DecryptError, "UnicodeDecodeError", "JSONDecodeError",
     "ValueError: fromhex", "ValueError: Incorrect AES key length",
     "ValueError: int", "ValueError: Invalid device key length"}

\* logger.error(error); sys.exit(1)  (error = "" when nothing is logged).
Exit(s, error) == [s EXCEPT !.pc = "exited", !.error = error, !.exit_status = 1]

\* An exception nothing catches ends the script with a traceback and status 1.
Crash(s, exception) ==
    [s EXCEPT !.pc = "crashed", !.exception = exception, !.exit_status = 1]

\* s[i:].startswith(p)
StartsWithAt(s, p, i) ==
    /\ i + Len(p) - 1 <= Len(s)
    /\ \A j \in 1..Len(p) : s[i + j - 1] = p[j]

\* p in s, for str s.
Contains(s, p) == \E i \in 1..(Len(s) + 1) : StartsWithAt(s, p, i)

\* [a-f0-9]
IsUuidChar(c) == c \in (48..57) \cup (97..102)

\* UUID_RE matches s from position i on: 8-4-4-4-12 lower-case hex digits.
UuidAt(s, i) ==
    /\ i + 35 <= Len(s)
    /\ \A j \in 0..35 : IF j \in {8, 13, 18, 23} THEN s[i + j] = 45
                        ELSE IsUuidChar(s[i + j])

\* A match object: the text matched and the number of capture groups of the
\* pattern. UUID_RE has none: (?:...) does not capture.
NoMatch == [matched |-> FALSE, text |-> <<>>, groups |-> 0]

MatchOf(text) == [matched |-> TRUE, text |-> text, groups |-> 0]

\* re.fullmatch(UUID_RE, s)
UuidFullMatch(s) == IF Len(s) = 36 /\ UuidAt(s, 1) THEN MatchOf(s) ELSE NoMatch

\* re.search(UUID_RE, s): the leftmost match.
UuidSearch(s) ==
    IF \E i \in 1..Len(s) : UuidAt(s, i)
    THEN LET i == CHOOSE x \in 1..Len(s) :
                      UuidAt(s, x) /\ \A y \in 1..Len(s) : UuidAt(s, y) => x <= y
         IN  MatchOf(SubSeq(s, i, i + 35))
    ELSE NoMatch

\* match.group(n): group 0 is the whole match; a group the pattern does not
\* have raises IndexError.
Group(m, n) ==
    IF n > m.groups THEN [ok |-> FALSE, err |-> "IndexError", val |-> <<>>]
    ELSE [ok |-> TRUE, err |-> "none", val |-> m.text]

\* re.match(r'https?://(?:www\.)hulu\.com/(?:watch|movie|series)', s)
WatchUrlMatch(s) ==
    \E scheme \in {Str(<<"h", "t", "t", "p", ":", "/", "/">>), Str(<<"h", "t", "t", "p", "s", ":", "/", "/">>)},
       kind \in {Str(<<"w", "a", "t", "c", "h">>), Str(<<"m", "o", "v", "i", "e">>), Str(<<"s", "e", "r", "i", "e", "s">>)} :
        StartsWithAt(s, scheme \o Str(<<"w", "w", "w", ".", "h", "u", "l", "u", ".", "c", "o", "m", "/">>) \o kind, 1)

\* The watch id of the url argument: [ok, err, val], val = <<>> for None.
\* A full match of UUID_RE asks for group 1.
resolve_watch_id(url) ==
    IF UuidFullMatch(url).matched THEN Group(UuidFullMatch(url), 1)
    ELSE IF WatchUrlMatch(url) /\ UuidSearch(url).matched
    THEN Group(UuidSearch(url), 0)
    ELSE [ok |-> TRUE, err |-> "none", val |-> <<>>]

NotValidUrlError == "is not a valid Hulu watch URL or ID."

\* A title id as a bare argument, watch and series pages, a page address
\* without id, one without www., and a word.
TitleUuid == Str(<<"2", "6", "9", "5", "9", "7", "2", "c", "-", "f", "1", "9", "a", "-", "4", "0", "4", "4", "-", "b", "7", "d", "5", "-", "c", "9", "a", "f", "5", "5", "b", "4", "7", "8", "e", "4">>)
WatchUrl  == Str(<<"h", "t", "t", "p", "s", ":", "/", "/", "w", "w", "w", ".", "h", "u", "l", "u", ".", "c", "o", "m", "/", "w", "a", "t", "c", "h", "/">>) \o TitleUuid
SeriesUrl == Str(<<"h", "t", "t", "p", "s", ":", "/", "/", "w", "w", "w", ".", "h", "u", "l", "u", ".", "c", "o", "m", "/", "s", "e", "r", "i", "e", "s", "/", "s", "h", "o", "w", "-">>) \o TitleUuid
NoIdUrl   == Str(<<"h", "t", "t", "p", "s", ":", "/", "/", "w", "w", "w", ".", "h", "u", "l", "u", ".", "c", "o", "m", "/", "w", "a", "t", "c", "h", "/", "a", "b", "c">>)
NoWwwUrl  == Str(<<"h", "t", "t", "p", "s", ":", "/", "/", "h", "u", "l", "u", ".", "c", "o", "m", "/", "w", "a", "t", "c", "h", "/">>) \o TitleUuid
WordUrl   == Str(<<"f", "o", "o">>)

\* The command lines of the model: every url without options, the watch page
\* with the codec options, the series page with a season.
ScriptArgs ==
    {Args(u, FALSE, FALSE, FALSE, FALSE) :
        u \in {TitleUuid, WatchUrl, SeriesUrl, NoIdUrl, NoWwwUrl, WordUrl}}
    \cup {Args(WatchUrl, FALSE, TRUE, FALSE, FALSE),
          Args(WatchUrl, FALSE, FALSE, TRUE, FALSE),
          Args(WatchUrl, FALSE, TRUE, TRUE, TRUE),
          Args(SeriesUrl, TRUE, FALSE, FALSE, TRUE),
          Args(SeriesUrl, TRUE, TRUE, FALSE, FALSE)}

\* The script before create_client: the device of hulu.cfg and the
\* extra_playlist_params built from --force-2ch.
ScriptInit ==
    /\ pc = "new"
    /\ script \in {ScriptState("clients", a) : a \in ScriptArgs}
    /\ device \in {[device_code |-> DeviceCode, device_key |-> k] : k \in DeviceKeys}
    /\ extra_playlist_params = ScriptExtraParams(script.args.force_2ch)
    /\ session_key = <<>>
    /\ server_key = NoJson
    /\ established = NoCreds
    /\ handshakes = 0
    /\ last = OpRecord("none", NoArgs, NoResponse, Returned(NoJson, <<>>, <<>>, <<>>))
    /\ hdr_seen = FALSE

\* create_client where Device() raises.
ScriptCreateClientBadDevice ==
    /\ script.pc = "clients"
    /\ ConstructBadDevice
    /\ script' = Crash(script, last'.err)

\* create_client: HuluClient(code, key, jar, proxy, extra_playlist_params).
ScriptCreateClient(random_value, resp) ==
    /\ script.pc = "clients"
    /\ Construct(random_value, resp)
    /\ script' = IF last'.ok THEN [script EXCEPT !.pc = "watch_id"]
                 ELSE Crash(script, last'.err)

\* watch_id from args.url.
ScriptResolveWatchId ==
    /\ script.pc = "watch_id"
    /\ script' =
         LET w == resolve_watch_id(script.args.url)
         IN  IF ~w.ok THEN Crash(script, w.err)
             ELSE IF w.val = <<>> THEN Exit(script, NotValidUrlError)
             ELSE [script EXCEPT !.pc = "titles", !.watch_id = w.val]
    /\ UNCHANGED client_vars

\* How many episodes get_episodes may return.
MaxTitles == 2

\* t['id'] of the i-th title.
TitleId(i) == Str(<<"E", "A", "B", ":", ":">>) \o Decimal(i)

\* What the title lookup (get_title, or get_episodes with --season) meets:
\* a failed request, an entity without bundle, or n titles.
TitleLookups ==
    {[kind |-> k, n |-> 0] : k \in {"crash", "no_bundle"}}
    \cup {[kind |-> "found", n |-> n] : n \in 0..MaxTitles}

\* The series check and the title lookup; an episode list is not filtered
\* (no --episode).
ScriptTitles(lookup) ==
    /\ script.pc = "titles"
    /\ script' =
         IF Contains(script.args.url, Str(<<"/", "s", "e", "r", "i", "e", "s", "/">>)) /\ ~script.args.season
         THEN Exit(script, "For series, please use the --season argument.")
         ELSE IF lookup.kind = "crash" THEN Crash(script, "RequestException")
         ELSE IF lookup.kind = "no_bundle"
         THEN Exit(script, "Unable to get content ID. Possible GeoIP error.")
         ELSE IF script.args.season /\ lookup.n = 0
         THEN Exit(script, "No episodes found. Possible GeoIP error.")
         ELSE [script EXCEPT
                  !.titles = [i \in 1..(IF script.args.season THEN lookup.n ELSE 1)
                                  |-> TitleId(i)],
                  !.t = 1,
                  !.pc = "six"]
    /\ UNCHANGED client_vars

\* key in v: a key of a dict, a substring of a str, TypeError for an int.
In(key, v) ==
    IF v.t = "dict" THEN [ok |-> TRUE, err |-> "none", val |-> HasKey(v, key)]
    ELSE IF v.t = "str" THEN [ok |-> TRUE, err |-> "none", val |-> Contains(v.s, key)]
    ELSE [ok |-> FALSE, err |-> "TypeError", val |-> FALSE]

\* v[key] raises: KeyError for a dict without the key, TypeError otherwise.
SubscriptError(v, key) ==
    IF v.t = "dict" THEN (IF HasKey(v, key) THEN "none" ELSE "KeyError")
    ELSE "TypeError"

BlockError(dev) ==
    IF dev = "video" THEN "Error in Video manifest" ELSE "Error in Chrome manifest"

\* A script that goes on to the next step whatever the playlist call gave.
AfterPlaylistGoesOn(s, dev, r, mpd_ok, next) ==
    IF ~r.ok THEN [s EXCEPT !.pc = next]
    ELSE [s EXCEPT !.data[dev] = r.val, !.pc = next]

\* The body of `for device in ('video', 'chrome')` once the playlist call has
\* returned or raised (r): except ValueError exits, any other exception ends
\* the script, a 'block' key exits (the message reads data[device]["block"]),
\* and the MPD of stream_url is fetched and
\* parsed (mpd_ok) before the loop goes on.
AfterPlaylist(s, dev, r, mpd_ok, next) ==
    IF ~r.ok THEN (IF r.err \in ValueErrors THEN Exit(s, "") ELSE Crash(s, r.err))
    ELSE IF ~In(Str(<<"b", "l", "o", "c", "k">>), r.val).ok
    THEN Crash([s EXCEPT !.data[dev] = r.val], "TypeError")
    ELSE IF In(Str(<<"b", "l", "o", "c", "k">>), r.val).val
    THEN (IF SubscriptError(r.val, Str(<<"b", "l", "o", "c", "k">>)) # "none"
          THEN Crash([s EXCEPT !.data[dev] = r.val],
                     SubscriptError(r.val, Str(<<"b", "l", "o", "c", "k">>)))
          ELSE Exit([s EXCEPT !.data[dev] = r.val], BlockError(dev)))
    ELSE IF SubscriptError(r.val, Str(<<"s", "t", "r", "e", "a", "m", "_", "u", "r", "l">>)) # "none"
    THEN Crash([s EXCEPT !.data[dev] = r.val], SubscriptError(r.val, Str(<<"s", "t", "r", "e", "a", "m", "_", "u", "r", "l">>)))
    ELSE IF ~mpd_ok THEN Crash([s EXCEPT !.data[dev] = r.val], "MPDError")
    ELSE [s EXCEPT !.data[dev] = r.val, !.pc = next]

\* device == 'video': load_playlist_six(t['id'], 210, hdr=args.hdr, hevc=hevc).
ScriptLoadSix(rv_hevc, rv_avc, resp, mpd_ok) ==
    /\ script.pc = "six"
    /\ LoadPlaylistSix(script.titles[script.t], ScriptDeviceId, script.args.hdr,
                       ~script.args.h264, rv_hevc, rv_avc, resp)
    /\ script' = AfterPlaylist(script, "video", last', mpd_ok, "legacy")

\* device == 'chrome': load_playlist(t['id']).
ScriptLoadLegacy(rv, resp, mpd_ok) ==
    /\ script.pc = "legacy"
    /\ LoadPlaylist(script.titles[script.t], rv, resp)
    /\ script' = AfterPlaylist(script, "chrome", last', mpd_ok, "select")

\* The next title of the loop, with data = {}; after the last one the script
\* ends.
NextTitle(s) ==
    IF s.t < Len(s.titles)
    THEN [s EXCEPT !.t = s.t + 1, !.pc = "six",
                   !.data = [video |-> NoJson, chrome |-> NoJson]]
    ELSE [s EXCEPT !.pc = "done", !.exit_status = 0]

\* Track selection, file names and the licence request: they lead to the
\* download, to the next title (--info, --license), to sys.exit(1) or to an
\* exception.
SelectOutcomes == {"download", "skip", "exit", "crash"}

ScriptSelect(outcome) ==
    /\ script.pc = "select"
    /\ script' =
         IF outcome = "download" THEN [script EXCEPT !.pc = "download"]
         ELSE IF outcome = "skip" THEN NextTitle(script)
         ELSE IF outcome = "exit" THEN Exit(script, "Unable to get keys")
         ELSE Crash(script, "StopIteration")
    /\ UNCHANGED client_vars

\* The programs subprocess.run starts for a title.
Processes == {"aria2c", "mp4decrypt", "ffmpeg", "mkvmerge"}

\* Download, decrypt, remux and mux: subprocess.run(cmdline, check=True) for
\* each program, of which the first may already fail.
ScriptDownload(run_ok) ==
    /\ script.pc = "download"
    /\ script' =
         LET ran == IF run_ok THEN Processes ELSE {"aria2c"}
             s   == [script EXCEPT !.started =
                        @ \cup {[title |-> script.t, process |-> p] : p \in ran}]
         IN  IF run_ok THEN NextTitle(s) ELSE Crash(s, "CalledProcessError")
    /\ UNCHANGED client_vars

ScriptNext ==
    \/ ScriptCreateClientBadDevice
    \/ /\ script.pc = "clients"
       /\ \E rv \in RandomValues, resp \in HandshakeResponses(device.device_key) :
              ScriptCreateClient(rv, resp)
    \/ ScriptResolveWatchId
    \/ \E lookup \in TitleLookups : ScriptTitles(lookup)
    \/ /\ script.pc = "six"
       /\ \E rv1 \in RandomValues, rv2 \in RandomValues,
             resp \in PlaylistSixResponses, mpd_ok \in BOOLEAN :
              ScriptLoadSix(rv1, rv2, resp, mpd_ok)
    \/ /\ script.pc = "legacy"
       /\ \E rv \in RandomValues,
             resp \in PlaylistResponses(session_key, device.device_key),
             mpd_ok \in BOOLEAN :
              ScriptLoadLegacy(rv, resp, mpd_ok)
    \/ \E outcome \in SelectOutcomes : ScriptSelect(outcome)
    \/ \E run_ok \in BOOLEAN : ScriptDownload(run_ok)

ScriptSpec == ScriptInit /\ [][ScriptNext]_vars

-----------------------------------------------------------------------------
(* The claims.                                                             *)

PlaylistOps == {"load_playlist", "load_playlist_six"}

StepNames(steps) == [i \in 1..Len(steps) |-> steps[i].name]

HasStep(name) == \E i \in 1..Len(last.steps) : last.steps[i].name = name

RequestedUrls == {last.sent[i].url : i \in 1..Len(last.sent)}

SameLengthMaterial ==
    {[hex |-> KeyHexFF, bytes |-> [j \in 1..16 |-> 255]],
     [hex |-> KeyHexMixed,
      bytes |-> <<1, 35, 69, 103, 137, 171, 205, 239, 254, 220, 186, 152, 118, 84, 50, 16>>]}

ConfigResponse(dk, key_hex) ==
    Response(200, Envelope(dk, JsonDumps(ConfigDoc(key_hex, Str(<<"7">>)))))

\* c is the exclusive or of the bytes a and b: each bit of c is set exactly
\* when that bit differs in a and b.
IsXorOf(c, a, b) ==
    /\ c \in 0..255
    /\ \A k \in 0..7 : (Bit(c, k) = 1) <=> (Bit(a, k) # Bit(b, k))

\* C2: when the config response carries key material as long as the device
\* key, byte i of the session key the handshake returns is device_key[i] XOR
\* material[i]; a device key of 16 zero bytes and material of 16 ff bytes give
\* 16 ff bytes.
C2_SessionKeyIsXor ==
    \A m \in SameLengthMaterial :
        (last.op = "__init__" /\ last.resp = ConfigResponse(device.device_key, m.hex)) =>
            /\ last.ok
            /\ session_key = last.val.session_key
            /\ Len(session_key) = Len(m.bytes)
            /\ \A i \in 1..Len(m.bytes) :
                   IsXorOf(session_key[i], device.device_key[i], m.bytes[i])
            /\ (device.device_key = [j \in 1..16 |-> 0] /\ m.hex = KeyHexFF =>
                    session_key = [j \in 1..16 |-> 255])

\* A handshake with a non-zero device key and mixed key material returned.
C2_Witness ==
    /\ last.op = "__init__"
    /\ last.ok
    /\ last.resp = ConfigResponse(device.device_key, KeyHexMixed)
    /\ device.device_key # [j \in 1..16 |-> 0]
    /\ session_key # device.device_key

\* C3: whenever the handshake returns, the session key is as long as the
\* device key, whatever the length of the key material sent.
C3_SessionKeyLength ==
    (last.op = "__init__" /\ last.ok) => Len(session_key) = Len(device.device_key)

\* The status of a response is no success: 4xx or 5xx.
NonSuccess(resp) == ~resp.raised /\ resp.status_code >= 400

\* C4: for load_playlist and load_playlist_six, a non-success status makes
\* the operation fail with the transport's status error, and the body is not
\* hex-decoded, decrypted or returned as a playlist.
C4_NonSuccessFails ==
    (last.op \in PlaylistOps /\ NonSuccess(last.resp)) =>
        /\ ~last.ok
        /\ last.err = "HTTPError"
        /\ last.val = NoJson
        /\ ~HasStep("bytes.fromhex")
        /\ ~HasStep("decrypt")

HexDigitCodes == (48..57) \cup (65..70) \cup (97..102)

WhitespaceCodes == {9, 10, 11, 12, 13, 32}

DigitsBefore(text, i) == Cardinality({j \in 1..(i - 1) : text[j] \in HexDigitCodes})

\* The text is no hex for bytes.fromhex: a character that is neither a hex
\* digit nor ASCII whitespace, an odd number of digits, or whitespace between
\* the two digits of a byte.
NotValidHex(text) ==
    \/ \E i \in 1..Len(text) : text[i] \notin (HexDigitCodes \cup WhitespaceCodes)
    \/ DigitsBefore(text, Len(text) + 1) % 2 = 1
    \/ \E i \in 1..Len(text) :
           text[i] \in WhitespaceCodes /\ DigitsBefore(text, i) % 2 = 1

\* The last operation posted a request and the transport returned a response.
Answered == Len(last.sent) = 1 /\ ~last.resp.raised

LastStep == last.steps[Len(last.steps)].name

CryptoSteps == {"AES.new", "decrypt", "unpad", "decode", "json.loads"}

\* C5: in the handshake and in load_playlist, a response text that is no
\* valid hex ("zz", an odd number of digits) makes the operation raise the hex
\* decoding error and no other, with bytes.fromhex the last step run: no AES
\* context is made and nothing is decrypted. The error is raised for no text
\* that is valid hex.
C5_BadHexRaisesBeforeDecrypt ==
    (last.op \in {"__init__", "load_playlist"} /\ Answered) =>
        /\ (NotValidHex(last.resp.text) =>
                /\ ~last.ok
                /\ last.err = HexError
                /\ LastStep = "bytes.fromhex"
                /\ \A n \in CryptoSteps : ~HasStep(n))
        /\ (last.err = HexError => NotValidHex(last.resp.text))
        /\ (last.resp.text \in BadHexTexts => NotValidHex(last.resp.text))

\* load_playlist was answered "zz" and raised the hex decoding error.
C5_Witness ==
    /\ last.op = "load_playlist"
    /\ last.resp.text = Str(<<"z", "z">>)
    /\ last.err = HexError

\* PKCS#7 padding can be removed from p.
PaddingRemovable(p) ==
    /\ Len(p) > 0
    /\ Len(p) % 16 = 0
    /\ p[Len(p)] \in 1..16
    /\ \A j \in (Len(p) - p[Len(p)] + 1)..Len(p) : p[j] = p[Len(p)]

\* The key and the ciphertext the last operation handed to decrypt_response,
\* if it got that far.
LastDecryptInput ==
    IF last.op = "decrypt_response"
    THEN [reached |-> TRUE, key |-> last.args.key, ct |-> last.args.ciphertext]
    ELSE IF last.op \in {"__init__", "load_playlist"}
    THEN [reached |-> Answered /\ ~NotValidHex(last.resp.text),
          key |-> IF last.op = "__init__" THEN device.device_key ELSE session_key,
          ct |-> FromHex(last.resp.text).val]
    ELSE [reached |-> FALSE, key |-> <<>>, ct |-> <<>>]

\* The padding of the CBC-decrypted ciphertext cannot be removed (also when
\* the ciphertext is empty or no whole number of blocks).
PaddingUnremovable(key, ct) ==
    \/ ~CBCDecrypt(key, ct).ok
    \/ ~PaddingRemovable(CBCDecrypt(key, ct).val)

\* C6: when decrypt_response, given a key AES accepts, cannot remove the
\* padding of the CBC-decrypted bytes (also for an empty ciphertext and one
\* that is no multiple of 16 bytes), it raises the decryption error, returns
\* nothing, and has logged the base64 of the ciphertext and of the key; the
\* error is raised in no other case.
C6_BadPaddingLogsAndRaises ==
    LET in == LastDecryptInput
    IN  (in.reached /\ Len(in.key) \in {16, 24, 32}) =>
            /\ (PaddingUnremovable(in.key, in.ct) =>
                    /\ ~last.ok
                    /\ last.err = DecryptError
                    /\ last.val \in {NoJson, NoCreds}
                    /\ LastStep \in {"decrypt", "unpad"}
                    /\ Len(last.logged) = 4
                    /\ last.logged[1].fmt = "Error decrypting response"
                    /\ last.logged[2].fmt = "Ciphertext:"
                    /\ last.logged[3] = LogLine("%s", B64Encode(in.ct))
                    /\ last.logged[4] = LogLine("Tried decrypting with key %s",
                                                B64Encode(in.key))
                    /\ (in.ct = <<1, 2, 3>> => last.logged[3].arg = Str(<<"A", "Q", "I", "D">>))
                    /\ (in.ct = <<>> => last.logged[3].arg = <<>>)
                    /\ (in.key = [j \in 1..16 |-> 0] =>
                            last.logged[4].arg = Str(<<"A", "A", "A", "A", "A", "A", "A", "A", "A", "A", "A", "A", "A", "A", "A", "A", "A", "A", "A", "A", "A", "A", "=", "=">>))
                    /\ (in.key = OtherKey => last.logged[4].arg = Str(<<"E", "R", "I", "T", "F", "B", "U", "W", "F", "x", "g", "Z", "G", "h", "s", "c", "H", "R", "4", "f", "I", "A", "=", "=">>)))
            /\ (last.err = DecryptError => PaddingUnremovable(in.key, in.ct))

\* decrypt_response was given three bytes and the other key, and raised.
C6_Witness ==
    /\ last.op = "decrypt_response"
    /\ last.args.ciphertext = <<1, 2, 3>>
    /\ last.args.key = OtherKey
    /\ last.err = DecryptError

\* load_playlist was answered a whole envelope under a wrong key, and raised.
C6_WitnessWrongKey ==
    /\ last.op = "load_playlist"
    /\ last.resp.text = Envelope(OtherKey, JsonDumps(PlaylistDoc))
    /\ last.err = DecryptError

\* The keys of the AES.new and decrypt steps of the last operation.
StepKeys ==
    {last.steps[i].key : i \in {j \in 1..Len(last.steps) :
                                    last.steps[j].name \in {"AES.new", "decrypt"}}}

\* C7: load_playlist hex-decodes the response and decrypts it with the
\* session key, never with the device key, before it returns, so it returns
\* the document the service encrypted under the session key;
\* load_playlist_six neither hex-decodes nor decrypts and returns the parsed
\* body; the handshake decrypts with the device key.
C7_WhichKeyDecrypts ==
    /\ (last.op = "load_playlist" =>
            /\ StepKeys \subseteq {session_key}
            /\ (last.ok =>
                    /\ HasStep("bytes.fromhex")
                    /\ HasStep("decrypt")
                    /\ StepKeys = {session_key})
            /\ (/\ Len(session_key) = 16
                /\ last.resp = Response(200, Envelope(session_key, JsonDumps(PlaylistDoc)))
                => last.ok /\ last.val = PlaylistDoc))
    /\ (last.op = "load_playlist_six" =>
            /\ StepKeys = {}
            /\ \A n \in {"bytes.fromhex", "AES.new", "decrypt", "unpad", "decode"} :
                   ~HasStep(n)
            /\ (last.resp = Response(200, JsonDumps(PlaylistDoc))
                => last.ok /\ last.val = PlaylistDoc))
    /\ (last.op = "__init__" =>
            /\ StepKeys \subseteq {device.device_key}
            /\ (last.ok => StepKeys = {device.device_key}))

\* load_playlist returned the document encrypted under a session key that is
\* not the device key.
C7_Witness ==
    /\ last.op = "load_playlist"
    /\ last.ok
    /\ last.val = PlaylistDoc
    /\ session_key # device.device_key

\* C8: on a constructed client every operation, returning or raising, leaves
\* session_key, server_key and device as they were.
C8_CredentialsUnchanged ==
    [][pc = "ready" =>
           /\ session_key' = session_key
           /\ server_key' = server_key
           /\ device' = device
           /\ established' = established]_vars

\* C8 as a state invariant: a constructed client holds what __init__ stored.
C8_CredentialsAsEstablished ==
    pc = "ready" =>
        established = [session_key |-> session_key, server_key |-> server_key]

\* An operation raised on a constructed client, which still holds its keys.
C8_Witness ==
    /\ pc = "ready"
    /\ last.op = "load_playlist"
    /\ ~last.ok
    /\ established = [session_key |-> session_key, server_key |-> server_key]

\* The steps of each operation in the order the code runs them.
Pipeline(op) ==
    IF op = "__init__"
    THEN <<"session.post", "bytes.fromhex", "AES.new", "decrypt", "unpad", "decode",
           "json.loads", "config_dict['key']", "bytes.fromhex", "derive",
           "config_dict['key_id']">>
    ELSE IF op = "load_playlist"
    THEN <<"session.post", "bytes.fromhex", "AES.new", "decrypt", "unpad", "decode",
           "json.loads">>
    ELSE IF op = "load_playlist_six"
    THEN <<"session.post", "raise_for_status", "json.loads">>
    ELSE <<>>

\* C9: the handshake, load_playlist and load_playlist_six send at most one
\* request each and never post twice; the steps run are a prefix of the
\* operation's steps; when one fails none follows it, nothing is returned and
\* the error reaches the caller; a success has run them all.
C9_OneRequestNoRetry ==
    (last.op \in PlaylistOps \cup {"__init__"}) =>
        /\ Len(last.sent) <= 1
        /\ Cardinality({i \in 1..Len(last.steps) : last.steps[i].name = "session.post"}) <= 1
        /\ Len(last.steps) <= Len(Pipeline(last.op))
        /\ StepNames(last.steps) = SubSeq(Pipeline(last.op), 1, Len(last.steps))
        /\ (last.ok <=> last.err = "none")
        /\ (last.ok /\ handshakes = 1 => Len(last.steps) = Len(Pipeline(last.op)))
        /\ (~last.ok => last.val \in {NoJson, NoCreds})
        /\ (last.resp.raised => ~last.ok /\ StepNames(last.steps) = <<"session.post">>)
        /\ (Answered /\ last.op # "load_playlist_six" /\ last.resp.text \in BadHexTexts =>
                ~last.ok /\ StepNames(last.steps) = <<"session.post", "bytes.fromhex">>)
        /\ (last.op = "load_playlist_six" /\ NonSuccess(last.resp) =>
                ~last.ok /\ StepNames(last.steps) = <<"session.post", "raise_for_status">>)

\* load_playlist_six was refused and stopped after one request.
C9_Witness ==
    /\ last.op = "load_playlist_six"
    /\ NonSuccess(last.resp)
    /\ ~last.ok
    /\ Len(last.sent) = 1

\* The handshake stopped at the decryption after one request.
C9_WitnessHandshake ==
    /\ last.op = "__init__"
    /\ last.err = DecryptError
    /\ Len(last.sent) = 1

H265Entry ==
    [type |-> "H265", profile |-> "MAIN_10", width |-> 3840, height |-> 2160,
     framerate |-> 60, level |-> "5.1", tier |-> "MAIN"]

H264Entry ==
    [type |-> "H264", profile |-> "HIGH", width |-> 1920, height |-> 1080,
     level |-> "4.1"]

\* C10: the payload load_playlist_six posts has one video codec entry, the
\* H265 MAIN_10 3840x2160 60fps level 5.1 entry when hevc is set and the H264
\* HIGH 1920x1080 level 4.1 entry when it is not; with hdr it has
\* dynamic_range = DOLBY_VISION under video and multi_key = true under drm,
\* without hdr it has neither field.
C10_VideoCodecAndHdr ==
    (last.op = "load_playlist_six") =>
        /\ Len(last.sent) = 1
        /\ LET playback == last.sent[1].body.playback
               values   == playback.video.codecs.values
           IN  /\ Len(values) = 1
               /\ (last.args.hevc => values[1] = H265Entry)
               /\ (~last.args.hevc => values[1] = H264Entry)
               /\ (last.args.hdr =>
                       /\ "dynamic_range" \in DOMAIN playback.video
                       /\ playback.video.dynamic_range = "DOLBY_VISION"
                       /\ "multi_key" \in DOMAIN playback.drm
                       /\ playback.drm.multi_key = TRUE)
               /\ (~last.args.hdr =>
                       /\ DOMAIN playback.video = {"codecs"}
                       /\ DOMAIN playback.drm = {"values", "selection_mode"})

\* load_playlist_six was called with hdr set and hevc not set.
C10_Witness ==
    /\ last.op = "load_playlist_six"
    /\ last.args.hdr
    /\ ~last.args.hevc
    /\ last.sent[1].body.playback.video.dynamic_range = "DOLBY_VISION"

\* The script made the last call, and its request was sent.
ScriptSent(op) == script.pc # "none" /\ last.op = op /\ Len(last.sent) = 1

\* The types of the audio codec candidates of the request sent last.
SentAudioTypes ==
    LET values == last.sent[1].body.playback.audio.codecs.values
    IN  {values[i].type : i \in 1..Len(values)}

\* C11: the legacy playlist request the script's client sends has no EC3
\* among its audio codec candidates (only AAC) when --force-2ch is given, and
\* has both AAC and EC3 when it is not.
C11_LegacyAudioCodecs ==
    ScriptSent("load_playlist") =>
        /\ "playback" \in DOMAIN last.sent[1].body
        /\ (script.args.force_2ch => "EC3" \notin SentAudioTypes)
        /\ (script.args.force_2ch => SentAudioTypes = {"AAC"})
        /\ (~script.args.force_2ch => {"AAC", "EC3"} \subseteq SentAudioTypes)

\* The script ran with --force-2ch and its legacy request was answered.
C11_Witness ==
    /\ ScriptSent("load_playlist")
    /\ script.args.force_2ch
    /\ last.ok
    /\ SentAudioTypes = {"AAC"}

\* C12: the v6 playlist request has the audio codec candidates EC3 and AAC
\* with selection mode ALL, and only AAC when --force-2ch is given.
C12_SixAudioCodecs ==
    ScriptSent("load_playlist_six") =>
        /\ last.sent[1].body.playback.audio.codecs.selection_mode = "ALL"
        /\ (~script.args.force_2ch => SentAudioTypes = {"EC3", "AAC"})
        /\ (script.args.force_2ch => SentAudioTypes = {"AAC"})

\* dict a deep-merged with dict b (JSON values): the keys of a in order, a
\* key both have holding the merge when both values are dicts and b's value
\* otherwise, then the keys only b has.
RECURSIVE DeepMergeJson(_, _)
DeepMergeJson(a, b) ==
    JObj([i \in 1..Len(a.m) |->
              IF ~HasKey(b, a.m[i].k) THEN a.m[i]
              ELSE IF a.m[i].v.t = "dict" /\ GetItem(b, a.m[i].k).t = "dict"
              THEN Member(a.m[i].k, DeepMergeJson(a.m[i].v, GetItem(b, a.m[i].k)))
              ELSE Member(a.m[i].k, GetItem(b, a.m[i].k))]
         \o SelectSeq(b.m, LAMBDA x : ~HasKey(a, x.k)))

\* Both sides hold a mapping under k. Of the default fields only kv can hold
\* one (the others are a str or an int), as a JSON value.
BothMappings(d, e, k) ==
    /\ k = "kv"
    /\ k \in DOMAIN d /\ k \in DOMAIN e
    /\ d[k].t = "dict" /\ e[k].t = "dict"

\* The deep merge of the extra parameters e over the defaults d.
DeepMerge(d, e) ==
    [k \in (DOMAIN d) \cup (DOMAIN e) |->
        IF k \notin DOMAIN e THEN d[k]
        ELSE IF BothMappings(d, e, k) THEN DeepMergeJson(d[k], e[k])
        ELSE e[k]]

\* The default fields of the legacy request sent last (rv as sent).
LastDefaults ==
    [device_identifier |-> DeviceIdentifier,
     deejay_device_id |-> 830,
     version |-> 1,
     content_eab_id |-> last.args.video_id,
     rv |-> last.sent[1].body.rv,
     kv |-> server_key]

\* C13: the legacy playlist payload is the deep merge of
\* extra_playlist_params over the default fields: defaults the mapping does
\* not name are kept, the mapping's fields appear with its values, and where
\* both hold a mapping under a key the sub-fields are merged.
C13_DeepMerge ==
    (last.op = "load_playlist" /\ Len(last.sent) = 1) =>
        /\ last.sent[1].body.rv \in RandomValues
        /\ last.sent[1].body = DeepMerge(LastDefaults, extra_playlist_params)

MalformedPayloadErrors == {"UnicodeDecodeError", "JSONDecodeError"}

\* The bytes left once the padding is removed from the decrypted ciphertext.
PlaintextOf(key, ct) == Unpad(CBCDecrypt(key, ct).val).val

\* The plaintext is no UTF-8 text, or the text no JSON document.
BadPayload(plain) ==
    \/ ~Utf8Decode(plain).ok
    \/ ~JsonLoads(Utf8Decode(plain).val).ok

\* C14: when the padding is removed but the plaintext is no UTF-8 text (the
\* byte ff) or the text no JSON (oops), decrypt_response raises the decoding
\* error (UnicodeDecodeError, JSONDecodeError), which is neither the
\* decryption error nor the hex error, returns nothing and logs nothing: the
\* ciphertext and the key are not logged. It raises it in no other case.
C14_BadPayloadRaises ==
    LET in == LastDecryptInput
    IN  (/\ in.reached
         /\ Len(in.key) \in {16, 24, 32}
         /\ ~PaddingUnremovable(in.key, in.ct)) =>
            /\ (BadPayload(PlaintextOf(in.key, in.ct)) =>
                    /\ ~last.ok
                    /\ last.err \in MalformedPayloadErrors
                    /\ last.err \notin {HexError, DecryptError}
                    /\ last.val \in {NoJson, NoCreds}
                    /\ last.logged = <<>>
                    /\ LastStep \in {"decode", "json.loads"})
            /\ (last.err \in MalformedPayloadErrors =>
                    BadPayload(PlaintextOf(in.key, in.ct)))
            /\ (PlaintextOf(in.key, in.ct) = <<255>> =>
                    last.err = "UnicodeDecodeError")
            /\ (PlaintextOf(in.key, in.ct) = Str(<<"o", "o", "p", "s">>) =>
                    last.err = "JSONDecodeError")

\* decrypt_response was given a whole envelope of the byte ff and raised.
C14_Witness ==
    /\ last.op = "decrypt_response"
    /\ Len(last.args.key) = 16
    /\ PlaintextOf(last.args.key, last.args.ciphertext) = <<255>>
    /\ last.err = "UnicodeDecodeError"
    /\ last.logged = <<>>

\* load_playlist was answered an envelope of text that is no JSON and raised.
C14_WitnessJson ==
    /\ last.op = "load_playlist"
    /\ last.err = "JSONDecodeError"
    /\ last.logged = <<>>

\* The url argument is the address of a watch, movie or series page that
\* holds a title id.
ValidWatchUrl(url) == WatchUrlMatch(url) /\ UuidSearch(url).matched

\* The script has gone through the watch_id resolution.
WatchIdResolved ==
    /\ pc = "ready"
    /\ script.pc \notin {"none", "clients", "watch_id"}

\* C15: a url argument that is a bare title id (a full match of UUID_RE) is
\* taken as the watch id and the script goes on to the title lookup; the
\* script ends at the resolution only for an argument that is neither a page
\* address with an id nor an id, and then with the 'is not a valid Hulu watch
\* URL or ID.' error and exit status 1.
C15_BareIdAccepted ==
    WatchIdResolved =>
        /\ (UuidFullMatch(script.args.url).matched =>
                /\ script.watch_id = script.args.url
                /\ script.exception # "IndexError")
        /\ (script.watch_id = <<>> =>
                /\ ~UuidFullMatch(script.args.url).matched
                /\ ~ValidWatchUrl(script.args.url)
                /\ script.pc = "exited"
                /\ script.error = NotValidUrlError
                /\ script.exit_status = 1)

\* The payload of the request without its random value.
PayloadOf(l) == [l.sent[1].body EXCEPT !.rv = 0]

\* C16: the payload of a playlist request depends on the call's arguments
\* and the client's credentials and extra parameters only (and on rv): two
\* calls in a row with the same arguments send the same payload but for rv,
\* and a load_playlist_six call with hdr = false made after one with
\* hdr = true sends no dynamic_range and no multi_key, for either hevc.
C16_RequestsIndependent ==
    [][(last'.op \in PlaylistOps /\ Len(last'.sent) = 1) =>
          /\ (/\ last.op = last'.op
              /\ last.args = last'.args
              /\ Len(last.sent) = 1) => PayloadOf(last') = PayloadOf(last)
          /\ (/\ last'.op = "load_playlist_six"
              /\ hdr_seen
              /\ ~last'.args.hdr) =>
                 /\ DOMAIN last'.sent[1].body.playback.video = {"codecs"}
                 /\ DOMAIN last'.sent[1].body.playback.drm = {"values", "selection_mode"}
                 /\ PayloadOf(last') =
                        [SixRequestParams(server_key, last'.args.video_id,
                                          last'.args.device_id, FALSE,
                                          last'.args.hevc, 0, 0) EXCEPT !.rv = 0]
      ]_vars

\* load_playlist_six was called without hdr and without hevc after a call
\* with hdr.
C16_Witness ==
    /\ hdr_seen
    /\ last.op = "load_playlist_six"
    /\ ~last.args.hdr
    /\ ~last.args.hevc
    /\ Len(last.sent) = 1
    /\ DOMAIN last.sent[1].body.playback.video = {"codecs"}

\* The same with hevc.
C16_WitnessHevc ==
    /\ hdr_seen
    /\ last.op = "load_playlist_six"
    /\ ~last.args.hdr
    /\ last.args.hevc
    /\ Len(last.sent) = 1
    /\ DOMAIN last.sent[1].body.playback.drm = {"values", "selection_mode"}

\* The playlist call returned a document without 'block'.
PlaylistUsable(v) == v.t = "dict" /\ ~HasKey(v, Str(<<"b", "l", "o", "c", "k">>))

\* The playlist call made in this step raised, or returned a document with
\* 'block'.
PlaylistRefused(l) ==
    \/ ~l.ok
    \/ /\ In(Str(<<"b", "l", "o", "c", "k">>), l.val).ok
       /\ In(Str(<<"b", "l", "o", "c", "k">>), l.val).val

StartedFor(s, title) == {e \in s.started : e.title = title}

\* C17: the script starts aria2c, mp4decrypt, ffmpeg or mkvmerge for a title
\* only after load_playlist_six and then load_playlist for that title have
\* returned, both without a 'block' field; a call that raises or returns a
\* 'block' field ends the script with no process started for that title, and
\* an ended script starts none.
C17_ProcessesAfterPlaylists ==
    [][/\ (script'.started # script.started) =>
              /\ script.pc = "download"
              /\ \A e \in script'.started \ script.started :
                     e.title = script.t /\ e.process \in Processes
              /\ PlaylistUsable(script.data.video)
              /\ PlaylistUsable(script.data.chrome)
              /\ last.op = "load_playlist"
              /\ last.ok
              /\ last.args.video_id = script.titles[script.t]
              /\ last.val = script.data.chrome
       /\ (script'.data.chrome # NoJson => script'.data.video # NoJson)
       /\ (script.pc = "six" /\ script'.pc # "six") =>
              /\ last'.op = "load_playlist_six"
              /\ last'.args.video_id = script.titles[script.t]
              /\ StartedFor(script, script.t) = {}
       /\ (script.pc \in {"six", "legacy"} /\ PlaylistRefused(last')) =>
              /\ script'.pc \in {"exited", "crashed"}
              /\ script'.exit_status = 1
              /\ StartedFor(script', script.t) = {}
       /\ (script.pc \in {"exited", "crashed", "done"}) =>
              script'.started = script.started
      ]_vars

\* The four programs ran for the second title.
C17_Witness ==
    /\ script.t = 2
    /\ {e.process : e \in StartedFor(script, 2)} = Processes
    /\ PlaylistUsable(script.data.video)
    /\ PlaylistUsable(script.data.chrome)

\* The first title was downloaded and the legacy call of the second returned
\* a 'block' field: the script exited with nothing started for the second.
C17_WitnessBlock ==
    /\ script.t = 2
    /\ script.pc = "exited"
    /\ script.error = BlockError("chrome")
    /\ StartedFor(script, 1) # {}
    /\ StartedFor(script, 2) = {}

====
